---- MODULE Spec2Model ----
(***************************************************************************)
(* Model of the ibm_enterprise resource binding                            *)
(* (ibm/service/enterprise/resource_ibm_enterprise.go): the four handlers  *)
(* Create, Read, Update and Delete acting on one schema.ResourceData       *)
(* record `d` and on the remote enterprise-management service.             *)
(***************************************************************************)
EXTENDS Integers, Sequences, FiniteSets, TLC

\* ---------------------------------------------------------------- bounds
MaxClock == 2   \* remote writes (creations and updates) the service accepts

\* ---------------------------------------------------------------- schema
InputKeys == {"source_account_id", "name", "primary_contact_iam_id", "domain"}

ComputedKeys ==
    {"url", "enterprise_account_id", "crn", "state", "primary_contact_email",
     "created_at", "created_by", "updated_at", "updated_by"}

Schema == InputKeys \cup ComputedKeys

\* A declared configuration: the three required attributes and the optional
\* domain, which is either omitted (set = FALSE) or written with a value,
\* possibly the empty string.
Config(name, iamId, domainSet, domain) ==
    [source_account_id |-> "a1", name |-> name, primary_contact_iam_id |-> iamId,
     domain |-> [set |-> domainSet, value |-> domain]]

\* The declared configurations the engine hands over: a base one, one that
\* differs from it in each mutable attribute alone, one with the domain
\* written as the empty string, and one that differs in everything.
Configs ==
    {Config("n1", "p1", FALSE, ""),
     Config("n2", "p1", FALSE, ""),
     Config("n1", "p2", FALSE, ""),
     Config("n1", "p1", TRUE, "d1"),
     Config("n1", "p1", TRUE, ""),
     Config("n2", "p2", TRUE, "d1")}

VARIABLES
    d,          \* the schema.ResourceData record: [id, attrs]
    config,     \* the declared configuration d carries
    remote,     \* the remote service: enterprise id -> entity
    clock,      \* the remote service's time: the writes it has accepted
    clientErr,  \* whether the session fails to hand out the client
    lastOp,     \* the step taken last
    old,        \* d when that handler was entered
    oldRemote,  \* remote when that handler was entered
    mid,        \* d when that handler entered resourceIbmEnterpriseRead
    calls,      \* the remote calls that handler issued, in order
    ret         \* what that handler returned

vars == <<d, config, remote, clock, clientErr, lastOp, old, oldRemote, mid,
          calls, ret>>

\* -------------------------------------------------- schema.ResourceData
EmptyAttrs == [k \in Schema |-> ""]

\* d.Get(key) for a configurable key: the planned value; an omitted optional
\* string reads as the zero value "".
Get(cfg, key) ==
    IF key = "domain"
    THEN (IF cfg.domain.set THEN cfg.domain.value ELSE "")
    ELSE cfg[key]

\* Variant of GetOk that reports a key as set whenever the configuration
\* writes it, the zero value included.
GetOk_Exists(cfg, key) ==
    [value |-> Get(cfg, key), ok |-> IF key = "domain" THEN cfg.domain.set ELSE TRUE]

\* d.GetOk(key): the value, and whether it is set to a non-zero value.
GetOk(cfg, key) == [value |-> Get(cfg, key), ok |-> Get(cfg, key) # ""]

\* Variant of HasChange that reports every key as changed.
HasChange_Always(attrs, cfg, key) == TRUE

\* d.HasChange(key): the planned value differs from the last-known one.
HasChange(attrs, cfg, key) == attrs[key] # Get(cfg, key)

\* d.SetId(id)
SetId(dd, id) == [dd EXCEPT !.id = id]

\* ------------------------------------------------------- remote service
DateTimeString(t) == "T" \o ToString(t)

NewEntity(id, options, now) ==
    [name |-> options["name"],
     primary_contact_iam_id |-> options["primary_contact_iam_id"],
     domain |-> IF "domain" \in DOMAIN options THEN options["domain"] ELSE "",
     url |-> "url-" \o id,
     enterprise_account_id |-> "acct-" \o id,
     crn |-> "crn-" \o id,
     state |-> "ACTIVE",
     primary_contact_email |-> "mail-" \o options["primary_contact_iam_id"],
     created_at |-> now,
     created_by |-> "creator",
     updated_at |-> now,
     updated_by |-> "creator"]

NoFields == [k \in {} |-> ""]

NoEnterprise == NewEntity("", [k \in InputKeys |-> ""], 0)

NoResponse == [present |-> FALSE, StatusCode |-> 0]

Response(status) == [present |-> TRUE, StatusCode |-> status]

\* enterpriseManagementClient.CreateEnterpriseWithContext
CreateEnterpriseWithContext(rem, clk, options, fault) ==
    IF fault # "none"
    THEN [err |-> TRUE, EnterpriseID |-> "", remote |-> rem, clock |-> clk]
    ELSE LET id == "e" \o ToString(clk + 1) IN
         [err |-> FALSE, EnterpriseID |-> id,
          remote |-> [i \in DOMAIN rem \cup {id} |->
                        IF i = id THEN NewEntity(id, options, clk + 1) ELSE rem[i]],
          clock |-> clk + 1]

\* enterpriseManagementClient.GetEnterpriseWithContext
GetEnterpriseWithContext(rem, id, fault) ==
    CASE fault = "status404" ->
           [err |-> TRUE, response |-> Response(404), enterprise |-> NoEnterprise]
      [] fault = "status500" ->
           [err |-> TRUE, response |-> Response(500), enterprise |-> NoEnterprise]
      [] fault = "noResponse" ->
           [err |-> TRUE, response |-> NoResponse, enterprise |-> NoEnterprise]
      [] fault = "none" /\ id \notin DOMAIN rem ->
           [err |-> TRUE, response |-> Response(404), enterprise |-> NoEnterprise]
      [] OTHER ->
           [err |-> FALSE, response |-> Response(200), enterprise |-> rem[id]]

\* enterpriseManagementClient.UpdateEnterpriseWithContext
UpdateEnterpriseWithContext(rem, clk, id, options, fault) ==
    IF fault # "none" \/ id \notin DOMAIN rem
    THEN [err |-> TRUE, remote |-> rem, clock |-> clk]
    ELSE [err |-> FALSE,
          remote |-> [rem EXCEPT ![id] =
                        [f \in DOMAIN rem[id] |->
                           CASE f \in DOMAIN options -> options[f]
                             [] f = "primary_contact_email" /\ "primary_contact_iam_id" \in DOMAIN options ->
                                  "mail-" \o options["primary_contact_iam_id"]
                             [] f = "updated_at" -> clk + 1
                             [] f = "updated_by" -> "updater"
                             [] OTHER -> rem[id][f]]],
          clock |-> clk + 1]

\* ------------------------------------------------------------- handlers
\* The value resourceIbmEnterpriseRead passes to d.Set for each key.
ReadValue(enterprise, key) ==
    IF key \in {"created_at", "updated_at"}
    THEN DateTimeString(enterprise[key])
    ELSE enterprise[key]

\* Variant of ReadKeys in which the d.Set of crn is missing.
ReadKeys_WithoutCrn ==
    (InputKeys \ {"source_account_id"}) \cup (ComputedKeys \ {"crn"})

\* The keys resourceIbmEnterpriseRead sets.
ReadKeys == (InputKeys \ {"source_account_id"}) \cup ComputedKeys

Call(op, id, fields, result) ==
    [op |-> op, id |-> id, fields |-> fields, result |-> result]

GetResult(r) ==
    IF ~r.err THEN "ok"
    ELSE IF r.response.present /\ r.response.StatusCode = 404 THEN "notfound"
    ELSE "fail"

\* meta.(conns.ClientSession).EnterpriseManagementV1(): the error it returns.
EnterpriseManagementV1(cErr) == IF cErr THEN "ClientUnavailable" ELSE "nil"

NotRead == [entered |-> FALSE, d |-> [id |-> "", attrs |-> EmptyAttrs]]

\* Variant of resourceIbmEnterpriseRead without the 404 case: a not-found
\* fetch is returned as an error like any other.
resourceIbmEnterpriseRead_NotFoundIsError(dd, rem, cErr, getFault) ==
    IF EnterpriseManagementV1(cErr) # "nil"
    THEN [d |-> dd, calls |-> <<>>, ret |-> EnterpriseManagementV1(cErr)]
    ELSE LET r == GetEnterpriseWithContext(rem, dd.id, getFault)
             call == Call("get", dd.id, NoFields, GetResult(r))
         IN  IF r.err
             THEN [d |-> dd, calls |-> <<call>>, ret |-> "GetEnterpriseFailed"]
             ELSE [d |-> [dd EXCEPT !.attrs =
                            [k \in Schema |->
                               IF k \in ReadKeys THEN ReadValue(r.enterprise, k)
                               ELSE dd.attrs[k]]],
                   calls |-> <<call>>, ret |-> "nil"]

\* Variant of resourceIbmEnterpriseRead without the status test: every failed
\* fetch clears the identifier and returns no error.
resourceIbmEnterpriseRead_AnyErrorClearsId(dd, rem, cErr, getFault) ==
    IF EnterpriseManagementV1(cErr) # "nil"
    THEN [d |-> dd, calls |-> <<>>, ret |-> EnterpriseManagementV1(cErr)]
    ELSE LET r == GetEnterpriseWithContext(rem, dd.id, getFault)
             call == Call("get", dd.id, NoFields, GetResult(r))
         IN  IF r.err
             THEN [d |-> SetId(dd, ""), calls |-> <<call>>, ret |-> "nil"]
             ELSE [d |-> [dd EXCEPT !.attrs =
                            [k \in Schema |->
                               IF k \in ReadKeys THEN ReadValue(r.enterprise, k)
                               ELSE dd.attrs[k]]],
                   calls |-> <<call>>, ret |-> "nil"]

resourceIbmEnterpriseRead(dd, rem, cErr, getFault) ==
    IF EnterpriseManagementV1(cErr) # "nil"
    THEN [d |-> dd, calls |-> <<>>, ret |-> EnterpriseManagementV1(cErr)]
    ELSE LET r == GetEnterpriseWithContext(rem, dd.id, getFault)
             call == Call("get", dd.id, NoFields, GetResult(r))
         IN  IF r.err
             THEN IF r.response.present /\ r.response.StatusCode = 404
                  THEN [d |-> SetId(dd, ""), calls |-> <<call>>, ret |-> "nil"]
                  ELSE [d |-> dd, calls |-> <<call>>, ret |-> "GetEnterpriseFailed"]
             ELSE [d |-> [dd EXCEPT !.attrs =
                            [k \in Schema |->
                               IF k \in ReadKeys THEN ReadValue(r.enterprise, k)
                               ELSE dd.attrs[k]]],
                   calls |-> <<call>>, ret |-> "nil"]

\* The request resourceIbmEnterpriseCreate builds.
CreateEnterpriseOptions(cfg) ==
    [k \in {"source_account_id", "name", "primary_contact_iam_id"}
            \cup (IF GetOk(cfg, "domain").ok THEN {"domain"} ELSE {})
       |-> Get(cfg, k)]

\* Variant of resourceIbmEnterpriseCreate without the error test after the
\* creation call: it sets the returned identifier and reads in every case.
resourceIbmEnterpriseCreate_IgnoresError(dd, cfg, rem, clk, cErr, createFault, getFault) ==
    IF EnterpriseManagementV1(cErr) # "nil"
    THEN [d |-> dd, remote |-> rem, clock |-> clk,
          calls |-> <<>>, ret |-> EnterpriseManagementV1(cErr), mid |-> NotRead]
    ELSE LET options == CreateEnterpriseOptions(cfg)
             c == CreateEnterpriseWithContext(rem, clk, options, createFault)
             call == Call("create", "", options, IF c.err THEN "fail" ELSE "ok")
             d1 == SetId(dd, c.EnterpriseID)
             r == resourceIbmEnterpriseRead(d1, c.remote, cErr, getFault)
         IN  [d |-> r.d, remote |-> c.remote, clock |-> c.clock,
              calls |-> <<call>> \o r.calls, ret |-> r.ret,
              mid |-> [entered |-> TRUE, d |-> d1]]

resourceIbmEnterpriseCreate(dd, cfg, rem, clk, cErr, createFault, getFault) ==
    IF EnterpriseManagementV1(cErr) # "nil"
    THEN [d |-> dd, remote |-> rem, clock |-> clk,
          calls |-> <<>>, ret |-> EnterpriseManagementV1(cErr), mid |-> NotRead]
    ELSE LET options == CreateEnterpriseOptions(cfg)
             c == CreateEnterpriseWithContext(rem, clk, options, createFault)
             call == Call("create", "", options, IF c.err THEN "fail" ELSE "ok")
         IN  IF c.err
             THEN [d |-> dd, remote |-> c.remote, clock |-> c.clock,
                   calls |-> <<call>>, ret |-> "CreateEnterpriseFailed", mid |-> NotRead]
             ELSE LET d1 == SetId(dd, c.EnterpriseID)
                      r == resourceIbmEnterpriseRead(d1, c.remote, cErr, getFault)
                  IN  [d |-> r.d, remote |-> c.remote, clock |-> c.clock, calls |-> <<call>> \o r.calls, ret |-> r.ret,
                       mid |-> [entered |-> TRUE, d |-> d1]]

\* The keys resourceIbmEnterpriseUpdate tests with d.HasChange.
UpdateKeys == {"name", "primary_contact_iam_id", "domain"}

\* Variant of UpdateEnterpriseOptions that sets every mutable attribute,
\* changed or not.
UpdateEnterpriseOptions_AllKeys(attrs, cfg) ==
    [k \in UpdateKeys |-> Get(cfg, k)]

\* The request resourceIbmEnterpriseUpdate builds (besides the enterprise id).
UpdateEnterpriseOptions(attrs, cfg) ==
    [k \in {u \in UpdateKeys : HasChange(attrs, cfg, u)} |-> Get(cfg, k)]

\* Variant of resourceIbmEnterpriseUpdate that drops the record when the
\* update call fails.
resourceIbmEnterpriseUpdate_ClearsIdOnFailure(dd, cfg, rem, clk, cErr, updateFault, getFault) ==
    IF EnterpriseManagementV1(cErr) # "nil"
    THEN [d |-> dd, remote |-> rem, clock |-> clk,
          calls |-> <<>>, ret |-> EnterpriseManagementV1(cErr), mid |-> NotRead]
    ELSE LET options == UpdateEnterpriseOptions(dd.attrs, cfg)
             hasChange == \E k \in UpdateKeys : HasChange(dd.attrs, cfg, k)
             u == UpdateEnterpriseWithContext(rem, clk, dd.id, options, updateFault)
             call == Call("update", dd.id, options, IF u.err THEN "fail" ELSE "ok")
             r == resourceIbmEnterpriseRead(dd, IF hasChange THEN u.remote ELSE rem,
                                            cErr, getFault)
         IN  IF hasChange /\ u.err
             THEN [d |-> SetId(dd, ""), remote |-> u.remote, clock |-> u.clock,
                   calls |-> <<call>>, ret |-> "UpdateEnterpriseFailed", mid |-> NotRead]
             ELSE [d |-> r.d,
                   remote |-> IF hasChange THEN u.remote ELSE rem,
                   clock |-> IF hasChange THEN u.clock ELSE clk,
                   calls |-> (IF hasChange THEN <<call>> ELSE <<>>) \o r.calls,
                   ret |-> r.ret, mid |-> [entered |-> TRUE, d |-> dd]]

resourceIbmEnterpriseUpdate(dd, cfg, rem, clk, cErr, updateFault, getFault) ==
    IF EnterpriseManagementV1(cErr) # "nil"
    THEN [d |-> dd, remote |-> rem, clock |-> clk,
          calls |-> <<>>, ret |-> EnterpriseManagementV1(cErr), mid |-> NotRead]
    ELSE LET options == UpdateEnterpriseOptions(dd.attrs, cfg)
             hasChange == \E k \in UpdateKeys : HasChange(dd.attrs, cfg, k)
             u == UpdateEnterpriseWithContext(rem, clk, dd.id, options, updateFault)
             call == Call("update", dd.id, options, IF u.err THEN "fail" ELSE "ok")
             r == resourceIbmEnterpriseRead(dd, IF hasChange THEN u.remote ELSE rem,
                                            cErr, getFault)
         IN  IF hasChange /\ u.err
             THEN [d |-> dd, remote |-> u.remote, clock |-> u.clock,
                   calls |-> <<call>>, ret |-> "UpdateEnterpriseFailed", mid |-> NotRead]
             ELSE [d |-> r.d,
                   remote |-> IF hasChange THEN u.remote ELSE rem,
                   clock |-> IF hasChange THEN u.clock ELSE clk,
                   calls |-> (IF hasChange THEN <<call>> ELSE <<>>) \o r.calls,
                   ret |-> r.ret, mid |-> [entered |-> TRUE, d |-> dd]]

\* Variant of resourceIbmEnterpriseDelete that asks the remote service to
\* delete the enterprise.
resourceIbmEnterpriseDelete_CallsRemote(dd) ==
    [d |-> SetId(dd, ""), calls |-> <<Call("delete", dd.id, NoFields, "ok")>>,
     ret |-> "nil"]

\* Variant of resourceIbmEnterpriseDelete that rejects an instance whose
\* identifier is unset.
resourceIbmEnterpriseDelete_RejectsUnset(dd) ==
    IF dd.id = ""
    THEN [d |-> dd, calls |-> <<>>, ret |-> "InvalidState"]
    ELSE [d |-> SetId(dd, ""), calls |-> <<>>, ret |-> "nil"]

resourceIbmEnterpriseDelete(dd) ==
    [d |-> SetId(dd, ""), calls |-> <<>>, ret |-> "nil"]

\* ------------------------------------------------------- specification
CreateFaults == {"none", "fail"}
GetFaults == {"none", "status404", "status500", "noResponse"}
UpdateFaults == {"none", "fail"}

Init ==
    /\ d = [id |-> "", attrs |-> EmptyAttrs]
    /\ config \in Configs
    /\ remote = [i \in {} |-> NoEnterprise]
    /\ clock = 0
    /\ clientErr \in BOOLEAN
    /\ lastOp = "none"
    /\ old = d
    /\ oldRemote = remote
    /\ mid = NotRead
    /\ calls = <<>>
    /\ ret = "nil"

\* The engine hands the handlers a new declared configuration.
Plan ==
    \E cfg \in Configs \ {config} :
        /\ config' = cfg
        /\ lastOp' = "Plan"
        /\ old' = d
        /\ oldRemote' = remote
        /\ mid' = NotRead
        /\ calls' = <<>>
        /\ ret' = "nil"
        /\ UNCHANGED <<d, remote, clock, clientErr>>

Create ==
    \E createFault \in CreateFaults, getFault \in GetFaults :
        LET res == resourceIbmEnterpriseCreate(d, config, remote, clock,
                                               clientErr, createFault, getFault)
        IN  /\ res.clock <= MaxClock
            /\ d' = res.d
            /\ remote' = res.remote
            /\ clock' = res.clock
            /\ lastOp' = "Create"
            /\ old' = d
            /\ oldRemote' = remote
            /\ mid' = res.mid
            /\ calls' = res.calls
            /\ ret' = res.ret
            /\ UNCHANGED <<config, clientErr>>

Read ==
    \E getFault \in GetFaults :
        LET res == resourceIbmEnterpriseRead(d, remote, clientErr, getFault)
        IN  /\ d' = res.d
            /\ lastOp' = "Read"
            /\ old' = d
            /\ oldRemote' = remote
            /\ mid' = [entered |-> TRUE, d |-> d]
            /\ calls' = res.calls
            /\ ret' = res.ret
            /\ UNCHANGED <<config, remote, clock, clientErr>>

Update ==
    \E updateFault \in UpdateFaults, getFault \in GetFaults :
        LET res == resourceIbmEnterpriseUpdate(d, config, remote, clock, clientErr,
                                               updateFault, getFault)
        IN  /\ res.clock <= MaxClock
            /\ d' = res.d
            /\ remote' = res.remote
            /\ clock' = res.clock
            /\ lastOp' = "Update"
            /\ old' = d
            /\ oldRemote' = remote
            /\ mid' = res.mid
            /\ calls' = res.calls
            /\ ret' = res.ret
            /\ UNCHANGED <<config, clientErr>>

Delete ==
    LET res == resourceIbmEnterpriseDelete(d)
    IN  /\ d' = res.d
        /\ lastOp' = "Delete"
        /\ old' = d
        /\ oldRemote' = remote
        /\ mid' = NotRead
        /\ calls' = res.calls
        /\ ret' = res.ret
        /\ UNCHANGED <<config, remote, clock, clientErr>>

\* The enterprise is removed on the remote side by someone else.
OutOfBandDelete ==
    \E id \in DOMAIN remote :
        /\ remote' = [i \in DOMAIN remote \ {id} |-> remote[i]]
        /\ lastOp' = "OutOfBandDelete"
        /\ old' = d
        /\ oldRemote' = remote
        /\ mid' = NotRead
        /\ calls' = <<>>
        /\ ret' = "nil"
        /\ UNCHANGED <<d, config, clock, clientErr>>

Next == Plan \/ Create \/ Read \/ Update \/ Delete \/ OutOfBandDelete

Spec == Init /\ [][Next]_vars

\* ------------------------------------------------------------ properties
NumCalls(op) == Len(SelectSeq(calls, LAMBDA c : c.op = op))

\* The handler that ran last was handed the client by the session.
ClientObtained == ret # "ClientUnavailable"

\* The handler that ran last went through resourceIbmEnterpriseRead, and the
\* fetch it issued there ended with this result.
FetchResult(result) ==
    /\ mid.entered
    /\ calls # <<>>
    /\ calls[Len(calls)].op = "get"
    /\ calls[Len(calls)].result = result

\* The mutable attributes whose declared value differs from the last-known
\* value the handler that ran last was entered with.
Changed == {k \in {"name", "primary_contact_iam_id", "domain"} :
              old.attrs[k] # (IF k = "domain"
                              THEN (IF config.domain.set THEN config.domain.value ELSE "")
                              ELSE config[k])}

\* What the record holds for a key once it is hydrated from an entity.
Hydrated(entity, k) ==
    IF k \in {"created_at", "updated_at"} THEN "T" \o ToString(entity[k]) ELSE entity[k]

\* C1: Delete on an instance whose identifier is set issues no remote call,
\* clears the identifier, returns no error and leaves the remote service as
\* it was: an enterprise that existed before still exists.
C1_DeleteIsLocalOnly ==
    (lastOp = "Delete" /\ old.id # "") =>
        /\ calls = <<>>
        /\ d.id = ""
        /\ ret = "nil"
        /\ remote = oldRemote

C1_Witness ==
    /\ lastOp = "Delete"
    /\ old.id # ""
    /\ old.id \in DOMAIN oldRemote
    /\ old.id \in DOMAIN remote
    /\ d.id = ""

\* C2: whenever the fetch issued by Read reports not-found, Read clears the
\* identifier and returns no error.
C2_NotFoundClearsId ==
    FetchResult("notfound") => (d.id = "" /\ ret = "nil")

C2_Witness ==
    /\ lastOp = "Read"
    /\ old.id # ""
    /\ FetchResult("notfound")
    /\ d.id = ""
    /\ ret = "nil"

\* C3: an Update that was handed the client and finds no mutable attribute
\* changed issues no remote update call and still performs the trailing Read,
\* which issues one remote fetch.
C3_NoChangeNoUpdateCall ==
    (lastOp = "Update" /\ ClientObtained /\ Changed = {}) =>
        /\ NumCalls("update") = 0
        /\ mid.entered
        /\ NumCalls("get") = 1
        /\ Len(calls) = 1

C3_Witness ==
    /\ lastOp = "Update"
    /\ ClientObtained
    /\ old.id # ""
    /\ old.attrs["name"] # ""
    /\ Changed = {}
    /\ NumCalls("update") = 0
    /\ NumCalls("get") = 1

\* C4: an Update that was handed the client and finds a mutable attribute
\* changed issues exactly one remote update call, for the instance's
\* identifier, whose payload holds exactly the changed mutable attributes with
\* their declared values (never source_account_id); when that call succeeds
\* the trailing Read follows, and when it fails no Read is performed.
C4_UpdateSendsExactlyChanged ==
    (lastOp = "Update" /\ ClientObtained /\ Changed # {}) =>
        /\ NumCalls("update") = 1
        /\ calls[1].op = "update"
        /\ calls[1].id = old.id
        /\ DOMAIN calls[1].fields = Changed
        /\ "source_account_id" \notin DOMAIN calls[1].fields
        /\ \A k \in Changed :
              calls[1].fields[k] = (IF k = "domain" THEN config.domain.value ELSE config[k])
        /\ (calls[1].result = "ok") =>
              (mid.entered /\ Len(calls) = 2 /\ calls[2].op = "get")
        /\ (calls[1].result # "ok") => (~mid.entered /\ Len(calls) = 1)

C4_Witness ==
    /\ lastOp = "Update"
    /\ old.id # ""
    /\ Changed = {"domain"}
    /\ old.attrs["source_account_id"] # config.source_account_id
    /\ Len(calls) = 2
    /\ calls[1].result = "ok"
    /\ DOMAIN calls[1].fields = {"domain"}
    /\ calls[2].op = "get"

\* C5: when the remote creation call fails, Create returns that error,
\* performs no Read and leaves the identifier as it was (unset); over all
\* steps, an identifier is only ever assigned by Create, from the enterprise
\* a successful creation call has just created.
C5_FailedCreateLeavesIdUnset ==
    /\ (lastOp = "Create" /\ calls # <<>> /\ calls[1].result = "fail") =>
          /\ ret = "CreateEnterpriseFailed"
          /\ ~mid.entered
          /\ Len(calls) = 1
          /\ d = old
    /\ (d.id # old.id /\ d.id # "") =>
          /\ lastOp = "Create"
          /\ calls[1].op = "create"
          /\ calls[1].result = "ok"
          /\ d.id \in DOMAIN remote \ DOMAIN oldRemote

C5_Witness ==
    /\ lastOp = "Create"
    /\ old.id = ""
    /\ Len(calls) = 1
    /\ calls[1].op = "create"
    /\ calls[1].result = "fail"
    /\ ret = "CreateEnterpriseFailed"
    /\ d.id = ""

\* The enterprise the creation call of the Create that ran last has created.
Created == CHOOSE id \in DOMAIN remote \ DOMAIN oldRemote : TRUE

CreateCallSucceeded ==
    lastOp = "Create" /\ calls # <<>> /\ calls[1].op = "create" /\ calls[1].result = "ok"

\* C6 as stated: whenever Create returns after a successful creation call,
\* whatever the trailing Read did, the identifier is the returned one and
\* every derived attribute holds the value the remote service has for it.
C6_Original ==
    CreateCallSucceeded =>
        /\ d.id = Created
        /\ \A k \in ComputedKeys : d.attrs[k] = Hydrated(remote[Created], k)

\* C6 amended: after a successful creation call, Create returns the outcome
\* of its trailing Read: when the fetch succeeds, no error, the identifier is
\* the returned one and every derived attribute holds the fetched value
\* (timestamps in string form); when the fetch fails, the error, with the
\* identifier set and the attributes as they were; when the fetch reports
\* not-found, no error and the identifier cleared.
C6_CreateHydratesWhenReadSucceeds ==
    CreateCallSucceeded =>
        /\ mid.entered /\ mid.d.id = Created
        /\ FetchResult("ok") =>
              /\ ret = "nil"
              /\ d.id = Created
              /\ \A k \in ComputedKeys : d.attrs[k] = Hydrated(remote[Created], k)
        /\ FetchResult("fail") =>
              /\ ret = "GetEnterpriseFailed"
              /\ d.id = Created
              /\ d.attrs = old.attrs
        /\ FetchResult("notfound") => (ret = "nil" /\ d.id = "")
        /\ (ret = "nil" /\ d.id # "") => FetchResult("ok")

C6_Witness ==
    /\ CreateCallSucceeded
    /\ old.id = ""
    /\ FetchResult("ok")
    /\ d.id = Created
    /\ d.attrs["crn"] = "crn-" \o Created
    /\ d.attrs["created_at"] # ""

\* C7 as stated: Update on a PRESENT instance always returns with the
\* instance PRESENT and its identifier unchanged.
C7_Original ==
    (lastOp = "Update" /\ old.id # "") => d.id = old.id

\* C7 amended: Update on a PRESENT instance returns with the identifier
\* unchanged unless its trailing Read reports not-found, and then with the
\* identifier cleared; over all steps, only Create sets an identifier and only
\* Delete or a Read that reports not-found (alone, or trailing in Create or
\* Update) clears one.
C7_Transitions ==
    /\ (lastOp = "Update" /\ old.id # "") =>
          IF FetchResult("notfound") THEN d.id = "" ELSE d.id = old.id
    /\ (old.id = "" /\ d.id # "") => lastOp = "Create"
    /\ (old.id # "" /\ d.id = "") => (lastOp = "Delete" \/ FetchResult("notfound"))
    /\ (old.id # "" /\ d.id # "" /\ d.id # old.id) => lastOp = "Create"

C7_Witness ==
    /\ lastOp = "Update"
    /\ old.id # ""
    /\ FetchResult("notfound")
    /\ d.id = ""
    /\ ret = "nil"

\* C8 as stated: Read, Update and Delete on an instance whose identifier is
\* unset return InvalidState and issue no remote call with the empty
\* identifier.
C8_Original ==
    (lastOp \in {"Read", "Update", "Delete"} /\ old.id = "") =>
        /\ ret = "InvalidState"
        /\ \A i \in 1..Len(calls) : calls[i].id # ""

\* C8 amended: Read, Update and Delete do not check the lifecycle state and
\* never return InvalidState. On an instance whose identifier is unset, Delete
\* issues no remote call and returns no error; Read and Update, once handed
\* the client, pass the empty identifier to the remote call they issue (the
\* fetch, or the update when a mutable attribute changed) and return its
\* outcome; the identifier stays unset in every case.
C8_NoStateCheck ==
    (lastOp \in {"Read", "Update", "Delete"} /\ old.id = "") =>
        /\ d.id = ""
        /\ ret # "InvalidState"
        /\ lastOp = "Delete" => (ret = "nil" /\ calls = <<>>)
        /\ (lastOp \in {"Read", "Update"} /\ ClientObtained) =>
              /\ calls # <<>>
              /\ \A i \in 1..Len(calls) : calls[i].id = ""
              /\ ret = "nil" <=> FetchResult("notfound")

C8_Witness ==
    /\ lastOp = "Read"
    /\ old.id = ""
    /\ Len(calls) = 1
    /\ calls[1].op = "get"
    /\ calls[1].id = ""
    /\ d.id = ""

\* C9: when the fetch issued by Read fails with anything other than
\* not-found, Read returns the error and leaves the record as it was when
\* Read was entered: the identifier and every attribute.
C9_FailedReadKeepsRecord ==
    FetchResult("fail") => (ret = "GetEnterpriseFailed" /\ d = mid.d)

C9_Witness ==
    /\ lastOp = "Read"
    /\ old.id # ""
    /\ old.attrs["crn"] # ""
    /\ FetchResult("fail")
    /\ ret = "GetEnterpriseFailed"
    /\ d = old

\* C10 as stated: the creation request carries a domain field exactly when
\* the declared configuration sets domain, the empty string included.
C10_Original ==
    (lastOp = "Create" /\ calls # <<>>) =>
        /\ "domain" \in DOMAIN calls[1].fields <=> config.domain.set
        /\ config.domain.set => calls[1].fields["domain"] = config.domain.value

\* C10 amended: the creation request carries a domain field exactly when the
\* declared configuration sets domain to a non-empty value, and then with that
\* value; a domain that is omitted and one set to the empty string both give
\* a request without a domain field. The three required attributes are always
\* carried with their declared values.
C10_DomainOnlyIfNonEmpty ==
    (lastOp = "Create" /\ calls # <<>>) =>
        /\ calls[1].op = "create"
        /\ "domain" \in DOMAIN calls[1].fields <=>
              (config.domain.set /\ config.domain.value # "")
        /\ "domain" \in DOMAIN calls[1].fields =>
              calls[1].fields["domain"] = config.domain.value
        /\ \A k \in {"source_account_id", "name", "primary_contact_iam_id"} :
              k \in DOMAIN calls[1].fields /\ calls[1].fields[k] = config[k]

C10_Witness ==
    /\ lastOp = "Create"
    /\ calls # <<>>
    /\ calls[1].op = "create"
    /\ config.domain = [set |-> TRUE, value |-> ""]
    /\ "domain" \notin DOMAIN calls[1].fields

====
